---- MODULE Spec2Model ----
(***************************************************************************)
(* Model of the AdSense eligibility checker: the /api/analyze handler of   *)
(* server.js, the analyzeWebsite pipeline and its nine scorers.            *)
(*                                                                         *)
(* JavaScript values are represented as follows.                           *)
(*   string      a sequence of tokens (<<>> is the empty string)           *)
(*   T|undefined <<>> for undefined, <<v>> for the value v                 *)
(*   number      an integer, or, where the code can produce a non-finite   *)
(*               or fractional value, a fraction [num, den]:               *)
(*               den = 0 /\ num = 0 is NaN, den = 0 /\ num > 0 is Infinity *)
(***************************************************************************)
EXTENDS Integers, Sequences, FiniteSets, TLC

\* ---- bounds of the model ------------------------------------------------
MaxLinks == 2
MaxParagraphs == 1
MaxCount == 2
MaxAgeDays == 400

\* ---- program constants --------------------------------------------------
totalSteps == 10
DaysPerMonth == 30

\* ---- JavaScript numbers -------------------------------------------------
Num(n) == [num |-> n, den |-> 1]
NaN == [num |-> 0, den |-> 0]
Infinity == [num |-> 1, den |-> 0]

IsNaN(x) == x.den = 0 /\ x.num = 0
IsInteger(x) == x.den = 1

\* a / b for integers a >= 0, b >= 0
JsDiv(a, b) ==
  IF b = 0 THEN (IF a = 0 THEN NaN ELSE Infinity)
  ELSE [num |-> a, den |-> b]

\* x >= k for an integer k; every comparison with NaN is false
JsGeq(x, k) ==
  IF x.den = 0 THEN x.num > 0
  ELSE x.num >= k * x.den

\* Math.round: nearest integer, halves towards +Infinity; NaN and Infinity
\* are returned unchanged
MathRound(x) ==
  IF x.den = 0 THEN x
  ELSE Num((2 * x.num + x.den) \div (2 * x.den))

\* template-literal conversion of a number
NumToString(x) ==
  IF IsNaN(x) THEN "NaN"
  ELSE IF x.den = 0 THEN "Infinity"
  ELSE ToString(x.num \div x.den)

\* JSON.stringify of a number: non-finite numbers are written as null
JsonNumber(x) ==
  IF x.den = 0 THEN "null" ELSE ToString(x.num \div x.den)

\* ---- JavaScript strings and optional values -----------------------------
Undefined == <<>>
Some(v) == <<v>>

\* truthiness of a string
TruthyStr(s) == Len(s) > 0
\* truthiness of an optional string (attr() result)
TruthyAttr(a) == a # Undefined /\ TruthyStr(a[1])

\* prefixes of a token that are tested by the code
TokenStartsWith(tok, prefix) ==
  \/ tok = prefix
  \/ prefix = "http" /\ tok = "https"

StartsWith(s, prefix) == Len(s) > 0 /\ TokenStartsWith(s[1], prefix)

\* s.includes(t) for token sequences
Includes(s, t) ==
  \E i \in 1..(Len(s) - Len(t) + 1) : SubSeq(s, i, i + Len(t) - 1) = t

LowerToken(tok) ==
  CASE tok = "Privacy" -> "privacy"
    [] tok = "Contact" -> "contact"
    [] tok = "About" -> "about"
    [] tok = "Terms" -> "terms"
    [] OTHER -> tok

ToLowerCase(s) == [i \in 1..Len(s) |-> LowerToken(s[i])]

IsSpace(tok) == tok = " "

RECURSIVE TrimStart(_)
TrimStart(s) ==
  IF Len(s) > 0 /\ IsSpace(s[1]) THEN TrimStart(Tail(s)) ELSE s

RECURSIVE TrimEnd(_)
TrimEnd(s) ==
  IF Len(s) > 0 /\ IsSpace(s[Len(s)]) THEN TrimEnd(SubSeq(s, 1, Len(s) - 1)) ELSE s

Trim(s) == TrimEnd(TrimStart(s))

\* ---- scorers ------------------------------------------------------------
\* faulty variant: the title is worth 25 points instead of 20
calculateSEOScore_TitleOverweight(title, metaDescription, h1Count, h2Count, h3Count, internalLinks, externalLinks) ==
    (IF TruthyStr(title) THEN 25 ELSE 0)
  + (IF TruthyAttr(metaDescription) THEN 20 ELSE 0)
  + (IF h1Count > 0 THEN 15 ELSE 0)
  + (IF h2Count > 0 THEN 10 ELSE 0)
  + (IF h3Count > 0 THEN 5 ELSE 0)
  + (IF internalLinks > 0 THEN 15 ELSE 0)
  + (IF externalLinks > 0 THEN 15 ELSE 0)

calculateSEOScore(title, metaDescription, h1Count, h2Count, h3Count, internalLinks, externalLinks) ==
    (IF TruthyStr(title) THEN 20 ELSE 0)
  + (IF TruthyAttr(metaDescription) THEN 20 ELSE 0)
  + (IF h1Count > 0 THEN 15 ELSE 0)
  + (IF h2Count > 0 THEN 10 ELSE 0)
  + (IF h3Count > 0 THEN 5 ELSE 0)
  + (IF internalLinks > 0 THEN 15 ELSE 0)
  + (IF externalLinks > 0 THEN 15 ELSE 0)

calculateRequiredPagesScore(hasPrivacyPolicy, hasContactPage, hasAboutPage, hasTermsPage) ==
    (IF hasPrivacyPolicy THEN 40 ELSE 0)
  + (IF hasContactPage THEN 20 ELSE 0)
  + (IF hasAboutPage THEN 20 ELSE 0)
  + (IF hasTermsPage THEN 20 ELSE 0)

calculateSecurityScore(isHttps, hasHsts, hasXssProtection, hasCsp) ==
    (IF isHttps THEN 40 ELSE 0)
  + (IF hasHsts THEN 20 ELSE 0)
  + (IF hasXssProtection THEN 20 ELSE 0)
  + (IF hasCsp THEN 20 ELSE 0)

calculateDomainAgeScore(age) ==
  IF JsGeq(age, 12) THEN 100
  ELSE IF JsGeq(age, 6) THEN 80
  ELSE IF JsGeq(age, 3) THEN 60
  ELSE IF JsGeq(age, 1) THEN 40
  ELSE 20

calculateContentScore(wordCount, avgParagraphLength) ==
    (IF wordCount >= 1000 THEN 50
     ELSE IF wordCount >= 500 THEN 30
     ELSE IF wordCount >= 300 THEN 20
     ELSE 10)
  + (IF JsGeq(avgParagraphLength, 100) THEN 50
     ELSE IF JsGeq(avgParagraphLength, 50) THEN 30
     ELSE IF JsGeq(avgParagraphLength, 30) THEN 20
     ELSE 10)

calculateImageScore(total, withAlt, withTitle) ==
    (IF total > 0 THEN 40 ELSE 0)
  + (IF withAlt > 0 THEN 30 ELSE 0)
  + (IF withTitle > 0 THEN 30 ELSE 0)

calculateMetaScore(hasViewport, hasRobots, hasKeywords, hasAuthor, hasSocialMeta) ==
    (IF hasViewport THEN 30 ELSE 0)
  + (IF hasRobots THEN 20 ELSE 0)
  + (IF hasKeywords THEN 15 ELSE 0)
  + (IF hasAuthor THEN 15 ELSE 0)
  + (IF hasSocialMeta THEN 20 ELSE 0)

StatusPoints(status, full, half) ==
  IF status = "passed" THEN full
  ELSE IF status = "warning" THEN half
  ELSE 0

calculatePerformanceScore(performance) ==
    StatusPoints(performance.scripts.status, 30, 15)
  + StatusPoints(performance.stylesheets.status, 30, 15)
  + StatusPoints(performance.loadTime.status, 40, 20)

calculateAccessibilityScore(accessibility) ==
    StatusPoints(accessibility.images.status, 40, 20)
  + StatusPoints(accessibility.links.status, 30, 15)
  + StatusPoints(accessibility.forms.status, 30, 15)

\* round(a / b) for integers a >= 0, b > 0
RoundDiv(a, b) == (2 * a + b) \div (2 * b)

PercentStatus(pct) ==
  IF pct >= 90 THEN "passed" ELSE IF pct >= 50 THEN "warning" ELSE "failed"

\* ---- analyzePerformance / analyzeAccessibility --------------------------
analyzePerformance(page) ==
  LET scriptCount == page.scripts
      stylesheetCount == page.stylesheets
      totalResources == scriptCount + stylesheetCount
      estimatedLoadTime == RoundDiv(totalResources * 100, 1000)
  IN [scripts |-> [value |-> ToString(scriptCount) \o " scripts found",
                   status |-> IF scriptCount > 10 THEN "warning" ELSE "passed"],
      stylesheets |-> [value |-> ToString(stylesheetCount) \o " stylesheets found",
                       status |-> IF stylesheetCount > 5 THEN "warning" ELSE "passed"],
      loadTime |-> [value |-> ToString(estimatedLoadTime) \o " seconds (estimated)",
                    status |-> IF estimatedLoadTime > 3 THEN "warning" ELSE "passed"]]

\* images.filter(...).length and its like
ImagesWithAlt(imgs) == Cardinality({i \in 1..Len(imgs) : TruthyAttr(imgs[i].alt)})
ImagesWithTitle(imgs) == Cardinality({i \in 1..Len(imgs) : TruthyAttr(imgs[i].title)})
LinksWithText(links) == Cardinality({i \in 1..Len(links) : TruthyStr(Trim(links[i].text))})
FormsWithLabels(forms) == Cardinality({i \in 1..Len(forms) : forms[i].labels > 0})

Percentage(part, total) ==
  IF total > 0 THEN RoundDiv(part * 100, total) ELSE 0

AccessibilityItem(part, total) ==
  [value |-> <<Percentage(part, total), part, total>>,
   status |-> PercentStatus(Percentage(part, total))]

analyzeAccessibility(page) ==
  [images |-> AccessibilityItem(ImagesWithAlt(page.imgs), Len(page.imgs)),
   links |-> AccessibilityItem(LinksWithText(page.links), Len(page.links)),
   forms |-> AccessibilityItem(FormsWithLabels(page.forms), Len(page.forms))]

\* ---- signal extraction (steps 3 to 9 of analyzeWebsite) -----------------
IsInternalLink(link, formattedUrl) ==
  /\ TruthyAttr(link.href)
  /\ \/ StartsWith(link.href[1], "/")
     \/ Includes(link.href[1], formattedUrl)

HrefIncludes(link, word) ==
  TruthyAttr(link.href) /\ Includes(ToLowerCase(link.href[1]), <<word>>)

\* links.filter(...).length
InternalLinks(links, formattedUrl) ==
  Cardinality({i \in 1..Len(links) : IsInternalLink(links[i], formattedUrl)})

ExternalLinks(links, formattedUrl) ==
  Len(links) - InternalLinks(links, formattedUrl)

HasLinkTo(links, word) ==
  Cardinality({i \in 1..Len(links) : HrefIncludes(links[i], word)}) > 0

\* paragraphs.text().split(/\s+/).length: one more than the number of
\* whitespace runs of the concatenated paragraph text ("" splits to [""])
WordCount(page) == page.pRuns + 1

AvgParagraphLength(page) == JsDiv(WordCount(page), page.pCount)

\* steps 3, 4 and 5: SEO checks, required pages, security
ExtractHead(page, formattedUrl) ==
  [title |-> page.title,
   metaDescription |-> page.metaDescription,
   h1Count |-> page.h1,
   h2Count |-> page.h2,
   h3Count |-> page.h3,
   linksLength |-> Len(page.links),
   internalLinks |-> InternalLinks(page.links, formattedUrl),
   externalLinks |-> ExternalLinks(page.links, formattedUrl),
   hasPrivacyPolicy |-> HasLinkTo(page.links, "privacy"),
   hasContactPage |-> HasLinkTo(page.links, "contact"),
   hasAboutPage |-> HasLinkTo(page.links, "about"),
   hasTermsPage |-> HasLinkTo(page.links, "terms"),
   isHttps |-> StartsWith(formattedUrl, "https"),
   hasHsts |-> "strict-transport-security" \in page.headers,
   hasXssProtection |-> "x-xss-protection" \in page.headers,
   hasCsp |-> "content-security-policy" \in page.headers]

\* steps 7, 8 and 9: content, images, meta tags
ExtractBody(page) ==
  [pCount |-> page.pCount,
   wordCount |-> WordCount(page),
   avgParagraphLength |-> AvgParagraphLength(page),
   imagesLength |-> Len(page.imgs),
   imagesWithAlt |-> ImagesWithAlt(page.imgs),
   imagesWithTitle |-> ImagesWithTitle(page.imgs),
   hasViewport |-> "viewport" \in page.metas,
   hasRobots |-> "robots" \in page.metas,
   hasKeywords |-> "keywords" \in page.metas,
   hasAuthor |-> "author" \in page.metas,
   hasSocialMeta |-> "og:" \in page.metas]

\* ---- domain age (step 6) ------------------------------------------------
\* Times are counted in whole days. new Date(v) of an undefined or
\* unparseable v is an Invalid Date, whose time value is NaN.
NewDate(creationDate) ==
  IF creationDate = Undefined THEN NaN
  ELSE IF ~creationDate[1].valid THEN NaN
  ELSE Num(creationDate[1].day)

\* Math.round((now - creationDate) / (one 30-day month))
DomainAgeOf(whoisData, now) ==
  LET created == NewDate(whoisData.creationDate)
  IN IF IsNaN(created) THEN MathRound(NaN)
     ELSE MathRound([num |-> now - created.num, den |-> DaysPerMonth])

\* ---- aggregation (step 12) ----------------------------------------------
\* the weight table, in hundredths
weights ==
  [seo |-> 25, requiredPages |-> 15, security |-> 15, domainAge |-> 10,
   content |-> 15, images |-> 10, meta |-> 10, performance |-> 10,
   accessibility |-> 10]

Categories ==
  {"seo", "requiredPages", "security", "domainAge", "content", "images",
   "meta", "performance", "accessibility"}

ComputeScores(f, domainAge, performance, accessibility) ==
  [seo |-> calculateSEOScore(f.title, f.metaDescription, f.h1Count, f.h2Count,
                             f.h3Count, f.internalLinks, f.externalLinks),
   requiredPages |-> calculateRequiredPagesScore(f.hasPrivacyPolicy, f.hasContactPage,
                                                 f.hasAboutPage, f.hasTermsPage),
   security |-> calculateSecurityScore(f.isHttps, f.hasHsts, f.hasXssProtection, f.hasCsp),
   domainAge |-> calculateDomainAgeScore(domainAge),
   content |-> calculateContentScore(f.wordCount, f.avgParagraphLength),
   images |-> calculateImageScore(f.imagesLength, f.imagesWithAlt, f.imagesWithTitle),
   meta |-> calculateMetaScore(f.hasViewport, f.hasRobots, f.hasKeywords, f.hasAuthor,
                               f.hasSocialMeta),
   performance |-> calculatePerformanceScore(performance),
   accessibility |-> calculateAccessibilityScore(accessibility)]

\* reduce over Object.entries(scores): sum of score * weight, in hundredths
\* (exact arithmetic; the floating-point sum differs from it by far less
\* than one unit of the rounded score)
FinalScore(scores) ==
  [num |->   scores.seo * weights.seo
           + scores.requiredPages * weights.requiredPages
           + scores.security * weights.security
           + scores.domainAge * weights.domainAge
           + scores.content * weights.content
           + scores.images * weights.images
           + scores.meta * weights.meta
           + scores.performance * weights.performance
           + scores.accessibility * weights.accessibility,
   den |-> 100]

\* ---- the report (return value of analyzeWebsite) ------------------------
Status(cond, else) == IF cond THEN "passed" ELSE else

Item(v, s) == [value |-> v, status |-> s]

BuildReport(f, domainAge, performance, accessibility, finalScore) ==
  [score |-> MathRound(finalScore),
   details |->
     [seo |->
        [title |-> Item(f.title, Status(TruthyStr(f.title), "failed")),
         metaDescription |-> Item(f.metaDescription,
                                  Status(TruthyAttr(f.metaDescription), "failed")),
         h1Count |-> Item(f.h1Count, Status(f.h1Count > 0, "failed")),
         h2Count |-> Item(f.h2Count, Status(f.h2Count > 0, "warning")),
         h3Count |-> Item(f.h3Count, Status(f.h3Count > 0, "warning")),
         internalLinks |-> Item(f.internalLinks, Status(f.internalLinks > 0, "warning")),
         externalLinks |-> Item(f.externalLinks, Status(f.externalLinks > 0, "warning"))],
      requiredPages |->
        [privacyPolicy |-> Item(f.hasPrivacyPolicy, Status(f.hasPrivacyPolicy, "failed")),
         contactPage |-> Item(f.hasContactPage, Status(f.hasContactPage, "failed")),
         aboutPage |-> Item(f.hasAboutPage, Status(f.hasAboutPage, "failed")),
         termsPage |-> Item(f.hasTermsPage, Status(f.hasTermsPage, "warning"))],
      security |->
        [https |-> Item(f.isHttps, Status(f.isHttps, "failed")),
         hsts |-> Item(f.hasHsts, Status(f.hasHsts, "warning")),
         xssProtection |-> Item(f.hasXssProtection, Status(f.hasXssProtection, "warning")),
         csp |-> Item(f.hasCsp, Status(f.hasCsp, "warning"))],
      domain |->
        [age |-> Item(NumToString(domainAge) \o " months",
                      Status(JsGeq(domainAge, 6), "failed"))],
      content |->
        [wordCount |-> Item(f.wordCount, Status(f.wordCount >= 500, "failed")),
         avgParagraphLength |-> Item(MathRound(f.avgParagraphLength),
                                     Status(JsGeq(f.avgParagraphLength, 50), "warning"))],
      images |->
        [total |-> Item(f.imagesLength, Status(f.imagesLength > 0, "warning")),
         withAlt |-> Item(f.imagesWithAlt, Status(f.imagesWithAlt > 0, "warning")),
         withTitle |-> Item(f.imagesWithTitle, Status(f.imagesWithTitle > 0, "warning"))],
      meta |->
        [viewport |-> Item(f.hasViewport, Status(f.hasViewport, "failed")),
         robots |-> Item(f.hasRobots, Status(f.hasRobots, "warning")),
         keywords |-> Item(f.hasKeywords, Status(f.hasKeywords, "warning")),
         author |-> Item(f.hasAuthor, Status(f.hasAuthor, "warning")),
         socialMeta |-> Item(f.hasSocialMeta, Status(f.hasSocialMeta, "warning"))],
      performance |-> performance,
      accessibility |-> accessibility]]

\* JSON.stringify of the report: the two numbers that are computed by a
\* division are written as JSON numbers (null when not finite)
JsonReport(r) ==
  [r EXCEPT !.score = JsonNumber(@),
            !.details.content.avgParagraphLength.value = JsonNumber(@)]

\* ---- inputs --------------------------------------------------------------
\* the non-decreasing sequences over 1..n of length at most k: one
\* representative of every multiset (no count depends on document order)
SortedSeqs(n, k) ==
  UNION {{q \in [1..m -> 1..n] : \A i \in 1..m : \A j \in i..m : q[i] <= q[j]} : m \in 0..k}

\* req.query.url: absent, a string, or an array (?url[]=...)
Urls ==
  {[t |-> "undefined", s |-> <<>>],
   [t |-> "string", s |-> <<>>],
   [t |-> "string", s |-> <<"example.com">>],
   [t |-> "string", s |-> <<"http", "://", "example.com">>],
   [t |-> "string", s |-> <<"https", "://", "example.com">>],
   [t |-> "array", s |-> <<"example.com">>]}

\* faulty variant: only an absent url is refused (url === undefined)
TruthyUrl_DefinedOnly(u) == u.t # "undefined"

TruthyUrl(u) == u.t = "array" \/ (u.t = "string" /\ TruthyStr(u.s))

LinkKinds ==
  <<[href |-> Undefined, text |-> <<"Top">>],
    [href |-> Some(<<>>), text |-> <<" ">>],
    [href |-> Some(<<"/", "Privacy">>), text |-> <<"Privacy">>],
    [href |-> Some(<<"http", "://", "example.com", "/", "contact">>),
     text |-> <<" ", "Contact", " ">>],
    [href |-> Some(<<"https", "://", "other.org", "/", "about", "-", "terms">>),
     text |-> <<>>]>>

LinkLists ==
  {[i \in 1..Len(q) |-> LinkKinds[q[i]]] : q \in SortedSeqs(Len(LinkKinds), MaxLinks)}

\* whitespace runs in the concatenated paragraph text
WhitespaceRuns == {0, 49, 999}

ParagraphTexts ==
  {[pCount |-> 0, pRuns |-> 0]}
  \cup {[pCount |-> n, pRuns |-> r] : n \in 1..MaxParagraphs, r \in WhitespaceRuns}

\* the rest of the document and the response headers
Documents ==
  {[title |-> <<>>, metaDescription |-> Undefined, h1 |-> 0, h2 |-> 0, h3 |-> 0,
    headers |-> {}, metas |-> {}, scripts |-> 0, stylesheets |-> 0,
    imgs |-> <<>>, forms |-> <<>>],
   [title |-> <<"Shop">>, metaDescription |-> Some(<<>>), h1 |-> 1, h2 |-> 0, h3 |-> 2,
    headers |-> {"strict-transport-security"}, metas |-> {"viewport"},
    scripts |-> 31, stylesheets |-> 6,
    imgs |-> <<[alt |-> Some(<<>>), title |-> Some(<<"Logo">>)],
               [alt |-> Some(<<"logo">>), title |-> Undefined]>>,
    forms |-> <<[labels |-> 0]>>],
   [title |-> <<"Shop">>, metaDescription |-> Some(<<"desc">>), h1 |-> 1, h2 |-> 1, h3 |-> 1,
    headers |-> {"strict-transport-security", "x-xss-protection",
                 "content-security-policy"},
    metas |-> {"viewport", "robots", "keywords", "author", "og:"},
    scripts |-> 3, stylesheets |-> 2,
    imgs |-> <<[alt |-> Some(<<"logo">>), title |-> Some(<<"Logo">>)]>>,
    forms |-> <<[labels |-> 1]>>]}

Pages ==
  {d @@ p @@ [links |-> l] : d \in Documents, p \in ParagraphTexts, l \in LinkLists}

FetchFailures == {"timeout", "network", "status", "redirects"}

\* the day of the analysis and the registration days a lookup may report
Now == MaxAgeDays
AgeDays == {15, MaxAgeDays}

WhoisResults ==
  {[creationDate |-> Undefined],
   [creationDate |-> Some([valid |-> FALSE, day |-> 0])]}
  \cup {[creationDate |-> Some([valid |-> TRUE, day |-> Now - a])] : a \in AgeDays}

\* ---- state --------------------------------------------------------------
VARIABLES
  pc,            \* position of the /api/analyze handler
  url,           \* req.query.url
  jsonResponse,  \* the response sent by res.status().json(), if any
  sseHeaders,    \* the event-stream headers have been set
  stream,        \* the events written by sendSSE, in order
  ended,         \* res.end() has been called
  currentStep,   \* analyzeWebsite: currentStep
  formattedUrl,  \* analyzeWebsite: formattedUrl
  response,      \* analyzeWebsite: the fetched page and its headers
  facts,         \* analyzeWebsite: the constants of steps 3 to 9
  domainAge,     \* analyzeWebsite: domainAge
  performance,   \* analyzeWebsite: performance
  accessibility, \* analyzeWebsite: accessibility
  scores,        \* analyzeWebsite: scores
  result,        \* the value analyzeWebsite returned
  error,         \* the message of the Error analyzeWebsite threw
  fetchCalls,    \* number of axios.get calls
  lookupCalls,   \* number of whoisLookup calls
  lookup,        \* how the whoisLookup call settled
  scored         \* the last application of a scorer (ScorerSpec only)

vars ==
  <<pc, url, jsonResponse, sseHeaders, stream, ended, currentStep, formattedUrl,
    response, facts, domainAge, performance, accessibility, scores, result, error,
    fetchCalls, lookupCalls, lookup, scored>>

handlerVars == <<url, jsonResponse, sseHeaders, ended>>
analysisVars ==
  <<formattedUrl, response, facts, domainAge, performance, accessibility, scores,
    result, error, fetchCalls, lookupCalls, lookup>>

Init ==
  /\ pc = "request"
  /\ url \in Urls
  /\ jsonResponse = Undefined
  /\ sseHeaders = FALSE
  /\ stream = <<>>
  /\ ended = FALSE
  /\ currentStep = 0
  /\ formattedUrl = Undefined
  /\ response = Undefined
  /\ facts = Undefined
  /\ domainAge = Undefined
  /\ performance = Undefined
  /\ accessibility = Undefined
  /\ scores = Undefined
  /\ result = Undefined
  /\ error = Undefined
  /\ fetchCalls = 0
  /\ lookupCalls = 0
  /\ lookup = "none"
  /\ scored = Undefined

\* ---- sendSSE and updateProgress -----------------------------------------
ProgressEvent(progress, step) ==
  [type |-> "progress", progress |-> progress, step |-> step]

\* faulty variant: the percentage is taken over the twelve numbered steps of
\* the comments instead of totalSteps
updateProgress_TwelveSteps(step) ==
  ProgressEvent(RoundDiv(step * 100, 12), step)

\* the event the handler's observer writes for updateProgress(step)
updateProgress(step) ==
  ProgressEvent(RoundDiv(step * 100, totalSteps), step)

sendSSE(events) == stream' = stream \o events

\* ---- the /api/analyze handler and analyzeWebsite ------------------------
\* lines 32-34: a missing url is answered with 400 and nothing else happens
Reject ==
  /\ pc = "request"
  /\ ~TruthyUrl(url)
  /\ jsonResponse' = Some([status |-> 400, error |-> "URL is required"])
  /\ pc' = "done"
  /\ UNCHANGED <<url, sseHeaders, stream, ended, currentStep, analysisVars, scored>>

\* lines 36-48 and 83-102: headers, the initial event, steps 1 and 2 up to
\* the await of axios.get; url.startsWith throws for a url that is no string
Start ==
  /\ pc = "request"
  /\ TruthyUrl(url)
  /\ sseHeaders' = TRUE
  /\ IF url.t # "string"
     THEN /\ sendSSE(<<ProgressEvent(0, 0), updateProgress(0)>>)
          /\ currentStep' = 0
          /\ error' = Some(<<"Analysis failed: ", "url.startsWith is not a function">>)
          /\ pc' = "thrown"
          /\ UNCHANGED <<formattedUrl, fetchCalls>>
     ELSE /\ sendSSE(<<ProgressEvent(0, 0), updateProgress(0), updateProgress(1)>>)
          /\ currentStep' = 1
          /\ formattedUrl' =
               Some(IF StartsWith(url.s, "http") THEN url.s ELSE <<"http", "://">> \o url.s)
          /\ fetchCalls' = fetchCalls + 1
          /\ pc' = "fetch"
          /\ UNCHANGED error
  /\ UNCHANGED <<url, jsonResponse, ended, response, facts, domainAge, performance,
                 accessibility, scores, result, lookupCalls, lookup, scored>>

\* faulty variant: a failed fetch is caught like a failed lookup and the pipeline
\* goes on with empty markup
FetchFail_Absorbed ==
  /\ pc = "fetch"
  /\ \E reason \in FetchFailures :
       error' = Some(<<"Analysis failed: ", reason>>)
  /\ \E page \in Pages :
       /\ page.title = <<>> /\ page.links = <<>> /\ page.pCount = 0
       /\ response' = Some(page)
       /\ facts' = Some(ExtractHead(page, formattedUrl[1]))
  /\ sendSSE(<<updateProgress(2), updateProgress(3), updateProgress(4), updateProgress(5)>>)
  /\ currentStep' = 5
  /\ domainAge' = Some(Num(0))
  /\ lookupCalls' = lookupCalls + 1
  /\ pc' = "whois"
  /\ UNCHANGED <<handlerVars, formattedUrl, performance, accessibility, scores, result,
                 fetchCalls, lookup, scored>>

\* lines 102-108, 273-275: axios.get rejects; the error is wrapped and rethrown
FetchFail ==
  /\ pc = "fetch"
  /\ \E reason \in FetchFailures :
       error' = Some(<<"Analysis failed: ", reason>>)
  /\ pc' = "thrown"
  /\ UNCHANGED <<handlerVars, stream, currentStep, formattedUrl, response, facts,
                 domainAge, performance, accessibility, scores, result, fetchCalls,
                 lookupCalls, lookup, scored>>

\* lines 109-156: the page is parsed, steps 3 to 5 run, step 6 starts the lookup
FetchOk ==
  /\ pc = "fetch"
  /\ \E page \in Pages :
       /\ response' = Some(page)
       /\ facts' = Some(ExtractHead(page, formattedUrl[1]))
  /\ sendSSE(<<updateProgress(2), updateProgress(3), updateProgress(4), updateProgress(5)>>)
  /\ currentStep' = 5
  /\ domainAge' = Some(Num(0))
  /\ lookupCalls' = lookupCalls + 1
  /\ pc' = "whois"
  /\ UNCHANGED <<handlerVars, formattedUrl, performance, accessibility, scores, result,
                 error, fetchCalls, lookup, scored>>

\* lines 164-185: steps 7 to 9 and the call of analyzePerformance
ContinueAfterLookup ==
  /\ sendSSE(<<updateProgress(6), updateProgress(7), updateProgress(8), updateProgress(8)>>)
  /\ currentStep' = 8
  /\ facts' = Some(facts[1] @@ ExtractBody(response[1]))
  /\ pc' = "performance"
  /\ UNCHANGED <<handlerVars, formattedUrl, response, performance, accessibility, scores,
                 result, error, fetchCalls, lookupCalls, scored>>

\* lines 156-159: the lookup resolves and the age is computed from its result
LookupReturn ==
  /\ pc = "whois"
  /\ \E whoisData \in WhoisResults :
       /\ domainAge' = Some(DomainAgeOf(whoisData, Now))
       /\ lookup' = IF IsNaN(NewDate(whoisData.creationDate)) THEN "nodate" ELSE "dated"
  /\ ContinueAfterLookup

\* faulty variant: a failed lookup is not caught at line 160 and aborts the analysis
LookupThrow_Fatal ==
  /\ pc = "whois"
  /\ lookup' = "error"
  /\ error' = Some(<<"Analysis failed: ", "lookup">>)
  /\ pc' = "thrown"
  /\ UNCHANGED <<handlerVars, stream, currentStep, formattedUrl, response, facts,
                 domainAge, performance, accessibility, scores, result, fetchCalls,
                 lookupCalls, scored>>

\* lines 160-162: the lookup rejects; the error is logged and dropped
LookupThrow ==
  /\ pc = "whois"
  /\ lookup' = "error"
  /\ UNCHANGED domainAge
  /\ ContinueAfterLookup

\* lines 185-190: analyzePerformance resolves; step 11 calls analyzeAccessibility
PerformanceDone ==
  /\ pc = "performance"
  /\ performance' = Some(analyzePerformance(response[1]))
  /\ sendSSE(<<ProgressEvent(80, 8), updateProgress(9)>>)
  /\ currentStep' = 9
  /\ pc' = "accessibility"
  /\ UNCHANGED <<handlerVars, formattedUrl, response, facts, domainAge, accessibility,
                 scores, result, error, fetchCalls, lookupCalls, lookup, scored>>

\* lines 190-272: analyzeAccessibility resolves; step 12 scores and returns
AccessibilityDone ==
  /\ pc = "accessibility"
  /\ LET acc == analyzeAccessibility(response[1])
         sc == ComputeScores(facts[1], domainAge[1], performance[1], acc)
     IN /\ accessibility' = Some(acc)
        /\ scores' = Some(sc)
        /\ result' = Some(BuildReport(facts[1], domainAge[1], performance[1], acc,
                                      FinalScore(sc)))
  /\ sendSSE(<<ProgressEvent(90, 9), updateProgress(10), updateProgress(10)>>)
  /\ currentStep' = 10
  /\ pc' = "returned"
  /\ UNCHANGED <<handlerVars, formattedUrl, response, facts, domainAge, performance,
                 error, fetchCalls, lookupCalls, lookup, scored>>

\* line 51: the handler writes the complete event
SendComplete ==
  /\ pc = "returned"
  /\ sendSSE(<<[type |-> "complete", result |-> JsonReport(result[1])]>>)
  /\ pc' = "finally"
  /\ UNCHANGED <<handlerVars, currentStep, analysisVars, scored>>

\* faulty variant: the catch block logs the error and writes no event
SendError_Silent ==
  /\ pc = "thrown"
  /\ pc' = "finally"
  /\ UNCHANGED <<handlerVars, stream, currentStep, analysisVars, scored>>

\* lines 52-54: the handler writes the error event
SendError ==
  /\ pc = "thrown"
  /\ sendSSE(<<[type |-> "error", message |-> error[1]]>>)
  /\ pc' = "finally"
  /\ UNCHANGED <<handlerVars, currentStep, analysisVars, scored>>

\* lines 55-57: the stream is ended
Finally ==
  /\ pc = "finally"
  /\ ended' = TRUE
  /\ pc' = "done"
  /\ UNCHANGED <<url, jsonResponse, sseHeaders, stream, currentStep, analysisVars, scored>>

Next ==
  \/ Reject
  \/ Start
  \/ FetchFail
  \/ FetchOk
  \/ LookupReturn
  \/ LookupThrow
  \/ PerformanceDone
  \/ AccessibilityDone
  \/ SendComplete
  \/ SendError
  \/ Finally

Spec == Init /\ [][Next]_vars

\* ---- the scorers on their own --------------------------------------------
\* Every scorer is applied to every input the pipeline can hand it, one
\* scorer at a time.
ScorerInit ==
  /\ pc = "scorers"
  /\ url = [t |-> "undefined", s |-> <<>>]
  /\ jsonResponse = Undefined
  /\ sseHeaders = FALSE
  /\ stream = <<>>
  /\ ended = FALSE
  /\ currentStep = 0
  /\ formattedUrl = Undefined
  /\ response = Undefined
  /\ facts = Undefined
  /\ domainAge = Undefined
  /\ performance = Undefined
  /\ accessibility = Undefined
  /\ scores = Undefined
  /\ result = Undefined
  /\ error = Undefined
  /\ fetchCalls = 0
  /\ lookupCalls = 0
  /\ lookup = "none"
  /\ scored = Undefined

Scored(category, args, score) ==
  Some([category |-> category, args |-> args, score |-> score])

pipelineVars == <<pc, handlerVars, stream, currentStep, analysisVars>>

Counts == 0..MaxCount
Titles == {<<>>, <<"Shop">>}
MetaDescriptions == {Undefined, Some(<<>>), Some(<<"desc">>)}
\* word counts around every tier of the content scorer
ScorerWhitespaceRuns == {0, 28, 29, 49, 99, 199, 298, 299, 498, 499, 998, 999, 1999}
ScorerResourceCounts == {0, 5, 6, 10, 11, 40}
\* registration days from the far past to one month in the future
ScorerWhoisResults ==
  {[creationDate |-> Undefined],
   [creationDate |-> Some([valid |-> FALSE, day |-> 0])]}
  \cup {[creationDate |-> Some([valid |-> TRUE, day |-> d])] : d \in 0..(Now + DaysPerMonth)}
PartsOfTotal == {pt \in Counts \X Counts : pt[1] <= pt[2]}

ScoreSEO ==
  \E title \in Titles, metaDescription \in MetaDescriptions,
     h1Count \in Counts, h2Count \in Counts, h3Count \in Counts,
     internalLinks \in Counts, externalLinks \in Counts :
    /\ pc = "scorers" /\ scored = Undefined /\ UNCHANGED pipelineVars
    /\ scored' = Scored("seo",
           <<title, metaDescription, h1Count, h2Count, h3Count, internalLinks, externalLinks>>,
           calculateSEOScore(title, metaDescription, h1Count, h2Count, h3Count,
                             internalLinks, externalLinks))

ScoreRequiredPages ==
  \E a \in BOOLEAN, b \in BOOLEAN, c \in BOOLEAN, d \in BOOLEAN :
    /\ pc = "scorers" /\ scored = Undefined /\ UNCHANGED pipelineVars
    /\ scored' = Scored("requiredPages", <<a, b, c, d>>, calculateRequiredPagesScore(a, b, c, d))

ScoreSecurity ==
  \E a \in BOOLEAN, b \in BOOLEAN, c \in BOOLEAN, d \in BOOLEAN :
    /\ pc = "scorers" /\ scored = Undefined /\ UNCHANGED pipelineVars
    /\ scored' = Scored("security", <<a, b, c, d>>, calculateSecurityScore(a, b, c, d))

ScoreDomainAge ==
  \E age \in {Num(0)} \cup {DomainAgeOf(w, Now) : w \in ScorerWhoisResults} :
    /\ pc = "scorers" /\ scored = Undefined /\ UNCHANGED pipelineVars
    /\ scored' = Scored("domainAge", <<age>>, calculateDomainAgeScore(age))

ScoreContent ==
  \E p \in {[pCount |-> 0, pRuns |-> 0]}
           \cup {[pCount |-> n, pRuns |-> r] : n \in 1..MaxCount, r \in ScorerWhitespaceRuns} :
    /\ pc = "scorers" /\ scored = Undefined /\ UNCHANGED pipelineVars
    /\ scored' = Scored("content", <<WordCount(p), AvgParagraphLength(p)>>,
           calculateContentScore(WordCount(p), AvgParagraphLength(p)))

ScoreImages ==
  \E total \in Counts, withAlt \in Counts, withTitle \in Counts :
    /\ withAlt <= total
    /\ withTitle <= total
    /\ pc = "scorers" /\ scored = Undefined /\ UNCHANGED pipelineVars
    /\ scored' = Scored("images", <<total, withAlt, withTitle>>,
              calculateImageScore(total, withAlt, withTitle))

ScoreMeta ==
  \E a \in BOOLEAN, b \in BOOLEAN, c \in BOOLEAN, d \in BOOLEAN, e \in BOOLEAN :
    /\ pc = "scorers" /\ scored = Undefined /\ UNCHANGED pipelineVars
    /\ scored' = Scored("meta", <<a, b, c, d, e>>, calculateMetaScore(a, b, c, d, e))

ScorePerformance ==
  \E scripts \in ScorerResourceCounts, stylesheets \in ScorerResourceCounts :
    LET perf == analyzePerformance([scripts |-> scripts, stylesheets |-> stylesheets])
    IN /\ pc = "scorers" /\ scored = Undefined /\ UNCHANGED pipelineVars
       /\ scored' = Scored("performance", <<perf>>, calculatePerformanceScore(perf))

ScoreAccessibility ==
  \E i \in PartsOfTotal, l \in PartsOfTotal, f \in PartsOfTotal :
    LET acc == [images |-> AccessibilityItem(i[1], i[2]),
                links |-> AccessibilityItem(l[1], l[2]),
                forms |-> AccessibilityItem(f[1], f[2])]
    IN /\ pc = "scorers" /\ scored = Undefined /\ UNCHANGED pipelineVars
       /\ scored' = Scored("accessibility", <<acc>>, calculateAccessibilityScore(acc))

ScorerNext ==
  \/ ScoreSEO
  \/ ScoreRequiredPages
  \/ ScoreSecurity
  \/ ScoreDomainAge
  \/ ScoreContent
  \/ ScoreImages
  \/ ScoreMeta
  \/ ScorePerformance
  \/ ScoreAccessibility

ScorerSpec == ScorerInit /\ [][ScorerNext]_vars

\* ---- properties ------------------------------------------------------------
EventsOfType(t) == {i \in 1..Len(stream) : stream[i].type = t}
Terminals == EventsOfType("complete") \cup EventsOfType("error")
ProgressEvents == SelectSeq(stream, LAMBDA e : e.type = "progress")
UrlMissing == url.t = "undefined" \/ (url.t = "string" /\ url.s = <<>>)
FetchFailed == error # Undefined /\ error[1][2] \in FetchFailures
HandlerLeftTry == pc \in {"finally", "done"}

\* C1: for a request with a non-empty url the stream holds progress events
\* followed by at most one terminal event, which is the last event written;
\* once the handler has left its try block, and when the stream is ended,
\* there is exactly one terminal event (complete or error, never both).
C1_ProgressThenOneTerminal ==
  ~UrlMissing =>
    /\ \A i \in 1..Len(stream) : stream[i].type \in {"progress", "complete", "error"}
    /\ Cardinality(Terminals) <= 1
    /\ \A i \in Terminals : i = Len(stream)
    /\ (HandlerLeftTry \/ ended) => Cardinality(Terminals) = 1
    /\ ended => pc = "done"

C1_Witness ==
  /\ ~UrlMissing
  /\ ended
  /\ Len(stream) > 1
  /\ stream[Len(stream)].type = "complete"
  /\ \A i \in 1..(Len(stream) - 1) : stream[i].type = "progress"

\* C2: when the page fetch fails, the stream never holds a complete event,
\* exactly one error event is written by the time the handler ends the
\* stream, and no later step has run: no page, no extracted facts, no domain
\* lookup, no scores and no report.
C2_FetchFailureIsOneError ==
  FetchFailed =>
    /\ EventsOfType("complete") = {}
    /\ Cardinality(EventsOfType("error")) <= 1
    /\ HandlerLeftTry => Cardinality(EventsOfType("error")) = 1
    /\ currentStep = 1
    /\ response = Undefined
    /\ facts = Undefined
    /\ lookupCalls = 0
    /\ domainAge = Undefined
    /\ scores = Undefined
    /\ result = Undefined

C2_Witness ==
  /\ FetchFailed
  /\ ended
  /\ stream[Len(stream)].type = "error"
  /\ stream[Len(stream)].message[2] = "timeout"

\* C3: when the fetch succeeded and the domain lookup raised an error, no
\* error is thrown or written: the pipeline goes on through the remaining
\* steps and the terminal event is complete.
C3_LookupFailureStillCompletes ==
  lookup = "error" =>
    /\ response # Undefined
    /\ error = Undefined
    /\ pc # "thrown"
    /\ EventsOfType("error") = {}
    /\ HandlerLeftTry =>
         /\ stream[Len(stream)].type = "complete"
         /\ currentStep = totalSteps
         /\ scores # Undefined

C3_Witness ==
  /\ lookup = "error"
  /\ ended
  /\ stream[Len(stream)].type = "complete"

\* C4: the score of the report is an integer in [0,100].
C4_ScoreInRange ==
  result # Undefined =>
    /\ IsInteger(result[1].score)
    /\ result[1].score.num \in 0..100

\* C5: the domain age is an integer number of months, never NaN, and it is 0
\* whenever the lookup raised an error or returned no usable creation date;
\* the report then says "0 months".
C5_DomainAgeIsInteger ==
  /\ domainAge # Undefined => IsInteger(domainAge[1])
  /\ lookup \in {"error", "nodate"} => domainAge = Some(Num(0))
  /\ (lookup \in {"error", "nodate"} /\ result # Undefined)
       => result[1].details.domain.age.value = "0 months"

\* C6: for a page with zero paragraph elements the average paragraph length
\* is 0, the content scorer takes the lowest average-length tier and the
\* reported avgParagraphLength value is 0.
C6_NoParagraphsAverageZero ==
  (facts # Undefined /\ "pCount" \in DOMAIN facts[1] /\ facts[1].pCount = 0) =>
    /\ facts[1].avgParagraphLength = Num(0)
    /\ scores # Undefined =>
         scores[1].content = calculateContentScore(facts[1].wordCount, Num(0))
    /\ result # Undefined =>
         result[1].details.content.avgParagraphLength.value = Num(0)

\* C7: each of the nine sub-scores is an integer in [0,100], for every input
\* the pipeline can hand its scorer.
C7_SubScoresInRange ==
  scored # Undefined =>
    /\ scored[1].category \in Categories
    /\ scored[1].score \in 0..100

C7_Witness ==
  /\ scored # Undefined
  /\ scored[1].category = "accessibility"
  /\ scored[1].score = 100

\* C8: in a successful analysis every step 0..10 is notified exactly once,
\* step and percentage strictly increase from one progress event to the
\* next, and the last progress event before complete is the 100% one.
C8_StrictlyIncreasingProgress ==
  EventsOfType("complete") # {} =>
    LET pe == ProgressEvents
    IN /\ \A i \in 1..(Len(pe) - 1) :
            /\ pe[i].step < pe[i + 1].step
            /\ pe[i].progress < pe[i + 1].progress
       /\ \A k \in 0..totalSteps :
            Cardinality({i \in 1..Len(pe) : pe[i].step = k}) = 1
       /\ pe[Len(pe)].progress = 100

\* C9: a request with a missing url is rejected before the pipeline starts:
\* nothing is written to the stream, no fetch and no lookup is attempted, and
\* the caller gets the single 400 response.
C9_MissingUrlRejected ==
  UrlMissing =>
    /\ pc \in {"request", "done"}
    /\ stream = <<>>
    /\ ~sseHeaders
    /\ fetchCalls = 0
    /\ lookupCalls = 0
    /\ result = Undefined
    /\ pc = "done" => jsonResponse = Some([status |-> 400, error |-> "URL is required"])
    /\ pc = "request" => jsonResponse = Undefined

C9_Witness ==
  /\ UrlMissing
  /\ url.t = "string"
  /\ pc = "done"
  /\ jsonResponse # Undefined

\* C10: links without a non-empty href are counted neither as internal nor
\* as external: internalLinks + externalLinks is the number of links with a
\* non-empty href.
C10_LinksWithoutHrefNotCounted ==
  facts # Undefined =>
    LET links == response[1].links
        withHref == {i \in 1..Len(links) : TruthyAttr(links[i].href)}
    IN facts[1].internalLinks + facts[1].externalLinks = Cardinality(withHref)

\* C11: in every run, successful or failed, every progress event written to
\* the stream (the handler's initial event, those of updateProgress and the
\* direct notifications at steps 8 and 9) has a step in 0..10 and
\* progress = 10 * step, and from one progress event to the next neither
\* step nor progress decreases.
C11_ProgressConsistentAndNonDecreasing ==
  LET pe == ProgressEvents
  IN /\ \A i \in 1..Len(pe) :
          /\ pe[i].step \in 0..totalSteps
          /\ pe[i].progress = 10 * pe[i].step
     /\ \A i \in 1..(Len(pe) - 1) :
          /\ pe[i].step <= pe[i + 1].step
          /\ pe[i].progress <= pe[i + 1].progress

\* a finished successful run, with the three notifications of step 8, the
\* two of step 9 and the two of step 10 in the stream
C11_Witness ==
  /\ ended
  /\ EventsOfType("complete") # {}
  /\ LET pe == ProgressEvents
     IN /\ Cardinality({i \in 1..Len(pe) : pe[i].step = 8 /\ pe[i].progress = 80}) = 3
        /\ Cardinality({i \in 1..Len(pe) : pe[i].step = 9 /\ pe[i].progress = 90}) = 2
        /\ Cardinality({i \in 1..Len(pe) : pe[i].step = 10 /\ pe[i].progress = 100}) = 2

====
